---- MODULE Spec2Model ----
(***************************************************************************)
(* Monero node tracker: the probe protocol of check_node, the scan loop of *)
(* run_scan with its bounded history, and the main loop, as one state      *)
(* machine.  JSON values are tagged records [t |-> type, v |-> value].     *)
(***************************************************************************)
EXTENDS Integers, Sequences, FiniteSets, TLC

\* ------------------------------------------------------------------ bounds
MaxScans == 12
MaxInitHist == 11
MaxNodes == 2
MaxIoFaults == 1
MaxFormatNodes == 5

\* ------------------------------------------------------- program constants
HistoryLimit == 10
ServerErrorFloor == 500
HttpOk == 200

\* ------------------------------------------------------------ JSON values
JNull == [t |-> "null"]
JInt(n) == [t |-> "int", v |-> n]
JStr(s) == [t |-> "str", v |-> s]
JObj(f) == [t |-> "obj", v |-> f]
NotJson == [t |-> "invalid"]
EmptyObj == [x \in {} |-> JNull]

\* Python's `key in x`: membership for a dict, TypeError for None and numbers.
In(key, x) ==
    CASE x.t = "obj" -> IF key \in DOMAIN x.v THEN "yes" ELSE "no"
      [] x.t = "str" -> "no"
      [] OTHER -> "raise"

\* dict.get(key, default)
Get(obj, key, default) == IF key \in DOMAIN obj.v THEN obj.v[key] ELSE default

\* ------------------------------------------------------- the five requests
HeightMethods ==
    << [verb |-> "POST", path |-> "/get_info", method |-> "get_info"],
       [verb |-> "POST", path |-> "/json_rpc", method |-> "get_info"],
       [verb |-> "POST", path |-> "/json_rpc", method |-> "get_last_block_header"] >>

BasicMethods ==
    << [verb |-> "GET", path |-> "", method |-> ""],
       [verb |-> "GET", path |-> "/get_info", method |-> ""] >>

\* ----------------------------------------------- what a request can end in
Refused == [kind |-> "refused"]
TimedOut == [kind |-> "timeout"]
Http(code, body) == [kind |-> "http", code |-> code, body |-> body]

RpcFull == JObj([result |-> JObj([height |-> JInt(500), version |-> JStr("0.18"),
                                  difficulty |-> JInt(7)])])
RpcHeightOnly == JObj([result |-> JObj([height |-> JInt(500)])])
RpcHeightZero == JObj([result |-> JObj([height |-> JInt(0)])])
RpcHeightStr == JObj([result |-> JObj([height |-> JStr("500")])])
RpcHeader == JObj([result |-> JObj([block_header |-> JObj([height |-> JInt(490)])])])
RpcHeightNull == JObj([result |-> JObj([height |-> JNull,
                                        block_header |-> JObj([height |-> JInt(490)])])])
RpcHeaderEmpty == JObj([result |-> JObj([block_header |-> JObj(EmptyObj)])])
RpcEmptyResult == JObj([result |-> JObj(EmptyObj)])
RpcNullResult == JObj([result |-> JNull])
RpcNoResult == JObj([error |-> JStr("Method not found")])

PostFailures ==
    { Refused, TimedOut, Http(404, NotJson), Http(HttpOk, NotJson), Http(HttpOk, JInt(5)),
      Http(HttpOk, RpcNoResult), Http(HttpOk, RpcEmptyResult), Http(HttpOk, RpcHeightNull) }
PostSuccesses ==
    { Http(HttpOk, RpcFull), Http(HttpOk, RpcHeightOnly), Http(HttpOk, RpcHeightZero),
      Http(HttpOk, RpcHeader), Http(HttpOk, RpcHeightStr) }
GetOutcomes ==
    { Refused, TimedOut, Http(HttpOk, NotJson), Http(404, NotJson), Http(500, NotJson) }

\* A remote endpoint's configuration decides what its requests can end in.
Profiles == {"any", "offline", "rpc", "html", "broken"}
PostOutcomes(profile) ==
    CASE profile = "any" -> PostFailures \cup PostSuccesses
      [] profile = "offline" -> {Refused, TimedOut}
      [] profile = "rpc" -> {Http(HttpOk, RpcFull)}
      [] profile = "html" -> {Http(404, NotJson), Http(HttpOk, NotJson)}
      [] OTHER -> {Http(HttpOk, RpcNullResult), Http(HttpOk, RpcHeaderEmpty),
                   Http(500, NotJson)}
GetOutcomesOf(profile) ==
    CASE profile = "any" -> GetOutcomes
      [] profile = "offline" -> {Refused, TimedOut}
      [] profile = "rpc" -> {Http(HttpOk, NotJson)}
      [] profile = "html" -> {Http(HttpOk, NotJson)}
      [] OTHER -> {Http(499, NotJson), Http(503, NotJson)}

\* ------------------------------------------------------------- check_node
Raise == [t |-> "raise"]

\* Where a response's result holds its height; None (JNull) when nowhere.
ExtractHeight(result) ==
    CASE In("height", result) = "raise" -> Raise
      [] In("height", result) = "yes" -> result.v.height
      [] In("block_header", result) = "yes" ->
            CASE In("height", result.v.block_header) = "raise" -> Raise
              [] In("height", result.v.block_header) = "yes" -> result.v.block_header.v.height
              [] OTHER -> JNull
      [] OTHER -> JNull

OnlineWithHeight(url, node_type, height, result) ==
    [ url |-> url, type |-> node_type, status |-> "online", height |-> height,
      version |-> Get(result, "version", JStr("")),
      difficulty |-> Get(result, "difficulty", JInt(0)) ]

\* Mutant of HeightStep: the `height is not None` test left out.
HeightStep_NoNoneCheck(url, node_type, response) ==
    IF response.kind # "http" THEN << >>
    ELSE IF response.code # HttpOk THEN << >>
    ELSE IF response.body.t = "invalid" THEN << >>
    ELSE IF In("result", response.body) # "yes" THEN << >>
    ELSE LET result == response.body.v.result
             height == ExtractHeight(result)
         IN  IF height.t = "raise" THEN << >>
             ELSE << OnlineWithHeight(url, node_type, height, result) >>

\* One iteration of the height-method loop: <<dict>> when it returns, << >> when
\* the loop goes on to the next method.
HeightStep(url, node_type, response) ==
    IF response.kind # "http" THEN << >>
    ELSE IF response.code # HttpOk THEN << >>
    ELSE IF response.body.t = "invalid" THEN << >>
    ELSE IF In("result", response.body) # "yes" THEN << >>
    ELSE LET result == response.body.v.result
             height == ExtractHeight(result)
         IN  IF height.t \in {"raise", "null"} THEN << >>
             ELSE << OnlineWithHeight(url, node_type, height, result) >>

OnlineWithNote(url, node_type, code) ==
    [ url |-> url, type |-> node_type, status |-> "online",
      note |-> <<"Responded with status", code>>, height |-> JInt(0) ]

\* Mutant of BasicStep: only a 200 counts as a sign of life.
BasicStep_OnlyOk(url, node_type, response) ==
    IF response.kind = "http" /\ response.code = HttpOk
    THEN << OnlineWithNote(url, node_type, response.code) >>
    ELSE << >>

\* One iteration of the basic-method loop.
BasicStep(url, node_type, response) ==
    IF response.kind = "http" /\ response.code < ServerErrorFloor
    THEN << OnlineWithNote(url, node_type, response.code) >>
    ELSE << >>

\* Mutant of Offline: the result padded to the shape of an RPC result.
Offline_WithDefaults(url, node_type) ==
    [ url |-> url, type |-> node_type, status |-> "offline",
      error |-> "Failed all connection methods", height |-> JInt(0),
      version |-> JStr(""), difficulty |-> JInt(0) ]

Offline(url, node_type) ==
    [ url |-> url, type |-> node_type, status |-> "offline",
      error |-> "Failed all connection methods", height |-> JInt(0) ]

\* Mutant of SessionFor: a darknet node always gets the Tor session.
SessionFor_DarknetAlwaysTor(node_type, useTor) ==
    IF node_type = "darknet" THEN "tor" ELSE "direct"

\* The client check_node picks for a node.
SessionFor(node_type, useTor) ==
    IF node_type = "darknet" /\ useTor THEN "tor" ELSE "direct"

\* The proxy a client sends its requests through: get_tor_session sets
\* socks5h://127.0.0.1:9050 for both schemes, the requests module sets none.
TorSessionPort == 9050
NoProxy == [host |-> "", port |-> 0]
Proxy(client) ==
    IF client = "tor" THEN [host |-> "127.0.0.1", port |-> TorSessionPort] ELSE NoProxy

\* Mutant of Strategy: the first method tried again at every step.
Strategy_RepeatFirst(k) == HeightMethods[1]

\* Mutant of Strategy: get_last_block_header asked before /json_rpc get_info.
Strategy_Swapped(k) ==
    IF k = 2 THEN HeightMethods[3]
    ELSE IF k = 3 THEN HeightMethods[2]
    ELSE IF k <= Len(HeightMethods) THEN HeightMethods[k]
    ELSE BasicMethods[k - Len(HeightMethods)]

\* The request strategy k (1..5) sends.
Strategy(k) == IF k <= Len(HeightMethods) THEN HeightMethods[k]
               ELSE BasicMethods[k - Len(HeightMethods)]
\* Mutant of NumStrategies: the second GET never tried.
NumStrategies_OneGet == Len(HeightMethods) + 1
NumStrategies == Len(HeightMethods) + Len(BasicMethods)

\* ------------------------------------------------------------------ files
\* A file on disk: absent, not JSON ("corrupt"), or a JSON document.
Absent == [st |-> "absent"]
Corrupt == [st |-> "corrupt"]
Doc(kind, scans) == [st |-> "json", kind |-> kind, scans |-> scans]
\* kinds of document: "history" {"scans": [...]}, "empty" {}, "other" {"foo": 1}
HistoryDoc(scans) == Doc("history", scans)

\* load_json: None (<< >>) for an absent file, invalid JSON or any read error.
LoadJson(file, readOk) ==
    IF file.st = "absent" THEN << >>
    ELSE IF ~readOk THEN << >>
    ELSE IF file.st = "corrupt" THEN << >>
    ELSE << file >>

\* save_json: what the file holds afterwards. A write that fails before the file
\* is opened leaves it as it was; one that fails after leaves a truncated file.
SaveJson(data, file, how) ==
    CASE how = "ok" -> data
      [] how = "fail" -> file
      [] OTHER -> Corrupt

\* Mutant of OrEmptyHistory: no `or {"scans": []}`, so that None is subscripted.
OrEmptyHistory_NoDefault(loaded) ==
    IF loaded = << >> THEN Doc("other", << >>) ELSE loaded[1]

\* `load_json(history_file) or {"scans": []}`: None and {} are falsy.
OrEmptyHistory(loaded) ==
    IF loaded = << >> THEN HistoryDoc(<< >>)
    ELSE IF loaded[1].kind = "empty" THEN HistoryDoc(<< >>)
    ELSE loaded[1]

LastN(seq, n) == IF Len(seq) > n THEN SubSeq(seq, Len(seq) - n + 1, Len(seq)) ELSE seq

\* Mutants of TrimHistory: no limit at all; the first ten kept instead of the last.
TrimHistory_NoLimit(scans) == scans
TrimHistory_KeepFirst(scans) ==
    IF Len(scans) > HistoryLimit THEN SubSeq(scans, 1, HistoryLimit) ELSE scans

\* "Limit history to last 10 scans"
TrimHistory(scans) ==
    IF Len(scans) > HistoryLimit THEN LastN(scans, HistoryLimit) ELSE scans

\* The node list of config/nodes.json.
NodesMissing == [st |-> "missing"]
NodesInvalid == [st |-> "invalid"]
NodesNoKey == [st |-> "nokey"]
NodesDoc(list) == [st |-> "ok", nodes |-> list]

LoadNodes(file) == IF file.st = "ok" THEN file.nodes ELSE << >>

\* format_scan_results compares every online node's height with 0: a height
\* that is not a number raises TypeError.
FormatRaises(results) ==
    \E j \in 1..Len(results) :
        results[j].status = "online" /\ results[j].height.t # "int"

\* ------------------------------------------------- format_scan_results
\* "within 10 blocks"
SyncWindow == 10

\* num/den rounded to the nearest integer, ties to the even one, as the
\* format specification .1f rounds a float that is exactly representable.
RoundHalfEven(num, den) ==
    LET q == num \div den
        r == num % den
    IN  IF 2 * r < den THEN q
        ELSE IF 2 * r > den THEN q + 1
        ELSE IF q % 2 = 0 THEN q ELSE q + 1

\* The tenths that `{num/den:.1f}` prints.
Tenths(num, den) == RoundHalfEven(10 * num, den)

MaxOf(S) == CHOOSE x \in S : \A y \in S : y <= x

\* Mutant of HealthScore: the synced nodes taken as a share of all nodes.
HealthScore_SyncedOverTotal(online_nodes, total_nodes, synced_nodes, with_height) ==
    IF total_nodes > 0 /\ with_height > 0
    THEN Tenths(50 * (online_nodes + synced_nodes), total_nodes)
    ELSE 0

\* `(online_nodes / total_nodes * 0.5 + synced_nodes / len(online_with_height)
\* * 0.5) * 100`, or 0, in the tenths the message prints.
HealthScore(online_nodes, total_nodes, synced_nodes, with_height) ==
    IF total_nodes > 0 /\ with_height > 0
    THEN Tenths(50 * (online_nodes * with_height + synced_nodes * total_nodes),
                total_nodes * with_height)
    ELSE 0

\* `heights`: the heights of the online nodes with a height above 0, in list order.
HeightsOf(ns) ==
    LET HasHeight(node) == node.status = "online" /\ node.height.v > 0
        with == SelectSeq(ns, HasHeight)
    IN  [j \in 1..Len(with) |-> with[j].height.v]

\* sorted(heights)[i - 1]
KthSmallest(heights, i) ==
    CHOOSE x \in { heights[j] : j \in 1..Len(heights) } :
        /\ Cardinality({ j \in 1..Len(heights) : heights[j] < x }) < i
        /\ Cardinality({ j \in 1..Len(heights) : heights[j] <= x }) >= i

\* median_height, in tenths: the middle of the sorted heights, the mean of the
\* two middle ones when their number is even, 0 when there is none.
MedianHeight(heights) ==
    LET mid == Len(heights) \div 2 IN
    IF heights = << >> THEN 0
    ELSE IF Len(heights) % 2 = 0
    THEN 5 * (KthSmallest(heights, mid) + KthSmallest(heights, mid + 1))
    ELSE 10 * KthSmallest(heights, mid + 1)

\* format_scan_results(scan_result): the numbers of the message it returns, the
\* percentages and the health score in tenths, or the exception it raises.
FormatScanResults(rec) ==
    LET ns == rec.nodes
        total_nodes == Len(ns)
        online == { j \in 1..Len(ns) : ns[j].status = "online" }
        online_nodes == Cardinality(online)
        clearnet_online == Cardinality({ j \in online : ns[j].type = "clearnet" })
        darknet_online == Cardinality({ j \in online : ns[j].type = "darknet" })
        online_with_height == { j \in online : ns[j].height.v > 0 }
        heights == { ns[j].height.v : j \in online_with_height }
        max_height == IF heights # { } THEN MaxOf(heights) ELSE 0
        synced_nodes ==
            Cardinality({ j \in online_with_height : max_height - ns[j].height.v <= SyncWindow })
        with_height == Cardinality(online_with_height)
        synced_percent ==
            IF with_height > 0 THEN Tenths(100 * synced_nodes, with_height) ELSE 0
        health_score == HealthScore(online_nodes, total_nodes, synced_nodes, with_height)
    IN  IF FormatRaises(ns) THEN [kind |-> "raise", type |-> "TypeError"]
        ELSE IF total_nodes = 0 THEN [kind |-> "raise", type |-> "ZeroDivisionError"]
        ELSE [ kind |-> "message", total |-> total_nodes, online |-> online_nodes,
               online_percent |-> Tenths(100 * online_nodes, total_nodes),
               clearnet |-> clearnet_online, darknet |-> darknet_online,
               block_height |-> max_height, synced |-> synced_nodes,
               with_height |-> with_height, synced_percent |-> synced_percent,
               health_score |-> health_score ]

\* ------------------------------------------------------------------ state
VARIABLES
    nodesFile,      \* config/nodes.json
    server,         \* url -> the profile of the endpoint behind it
    continuous,     \* args.continuous
    use_tor,        \* main's use_tor
    telegram,       \* [enabled: settings.telegram.enabled, creds: both env vars set]
    histFile,       \* data/node_history.json
    latestFile,     \* data/latest_scan.json
    clock,          \* datetime.now()
    pc,             \* where main is
    scans,          \* run_scan calls so far
    returned,       \* what the last run_scan returned (<< >>: nothing yet)
    exc,            \* the exception main caught (<< >>: none)
    nodes, idx, results, timestamp, online_count,   \* run_scan's locals
    k, session, ret,                                \* check_node's locals
    requested,      \* the requests check_node has sent for the current node
    attempts,       \* what each of them ended in
    appended,       \* every ScanRecord run_scan has handed to the history
    savedHistory,   \* the last document handed to save_json for the history file
    initHist,       \* the history file as the process found it
    faults,         \* file operations that failed so far
    sent,           \* notifications handed to the Telegram API
    socks_port,     \* settings["tor"]["socks_port"]
    probeLog,       \* the node indexes check_node was called for in this scan
    io,             \* how the file operations of this scan's persistence went
    atStart,        \* the two data files as this scan found them
    stoppedAt,      \* where main was when KeyboardInterrupt arrived ("": never)
    finished,       \* run_scan calls that have returned
    sleeps,         \* sleeps of the continuous loop that have elapsed
    warnings,       \* "Skipping notification" warnings logged
    scan_result,    \* the argument of a direct call of format_scan_results
    formatted,      \* what that call gave (<< >>: not called yet)
    median_height   \* the median it computed on the way, in tenths

vars == << nodesFile, server, continuous, use_tor, telegram, histFile, latestFile, clock,
           pc, scans, returned, exc, nodes, idx, results, timestamp, online_count,
           k, session, ret, requested, attempts, appended, savedHistory, initHist,
           faults, sent, socks_port, probeLog, io, atStart, stoppedAt, finished,
           sleeps, warnings, scan_result, formatted, median_height >>

config == << nodesFile, server, continuous, use_tor, telegram, initHist, socks_port,
             scan_result, formatted, median_height >>
files == << savedHistory, appended, faults >>
scanLocals == << nodes, idx, results, timestamp, online_count >>
probeLocals == << k, session, ret, requested, attempts >>

\* ------------------------------------------------------- initial states
U1 == "http://node.example:18081"
U2 == "http://nodeabcdefgh.onion:18081"
Urls == {U1, U2}
GoodNodes == { [url |-> U1, type |-> "clearnet"], [url |-> U2, type |-> "darknet"] }
\* entries of nodes.json that lack a key
BadNodes == { [url |-> U1], [type |-> "clearnet"] }

SeqsUpTo(S, n) == UNION { [1..m -> S] : m \in 0..n }

\* One endpoint answering in every possible way.
RichWorlds ==
    { [nodesFile |-> NodesDoc(<<n>>), server |-> [u \in Urls |-> "any"]] : n \in GoodNodes }
\* Several nodes, well-formed or not, each endpoint of one configuration.
SmallWorlds ==
    { [nodesFile |-> f, server |-> sv] :
        f \in { NodesDoc(l) : l \in SeqsUpTo(GoodNodes \cup BadNodes, MaxNodes) }
               \cup {NodesMissing, NodesInvalid, NodesNoKey},
        sv \in [Urls -> Profiles \ {"any"}] }

OldScans(n) == [j \in 1..n |-> [timestamp |-> j - n, nodes |-> << >>]]
InitialHistories ==
    { Absent, Corrupt, Doc("empty", << >>), Doc("other", << >>) }
    \cup { HistoryDoc(OldScans(n)) : n \in 0..MaxInitHist }

TelegramSettings ==
    { [enabled |-> FALSE, creds |-> FALSE], [enabled |-> TRUE, creds |-> FALSE],
      [enabled |-> TRUE, creds |-> TRUE] }

\* DEFAULT_SETTINGS["tor"]["socks_port"], and the ports a settings file may name.
DefaultSocksPort == 9050
SocksPorts == {DefaultSocksPort, DefaultSocksPort + 100}

\* No file operation of this scan has happened yet.
NoIo == [read |-> "none", hist |-> "none", latest |-> "none"]
NoRecord == [timestamp |-> 0, nodes |-> << >>]

InitLocals ==
    /\ clock = 1 /\ pc = "idle" /\ scans = 0 /\ returned = << >> /\ exc = << >>
    /\ nodes = << >> /\ idx = 0 /\ results = << >> /\ timestamp = 0 /\ online_count = 0
    /\ k = 0 /\ session = "none" /\ ret = << >> /\ requested = << >> /\ attempts = << >>
    /\ appended = << >> /\ savedHistory = << >> /\ faults = 0 /\ sent = 0
    /\ latestFile = Absent /\ initHist = histFile
    /\ probeLog = << >> /\ io = NoIo /\ atStart = << histFile, Absent >>
    /\ stoppedAt = "" /\ finished = 0 /\ sleeps = 0 /\ warnings = 0

\* A single scan of any node list.
InitSingle ==
    /\ continuous = FALSE
    /\ \E w \in RichWorlds \cup SmallWorlds : nodesFile = w.nodesFile /\ server = w.server
    /\ use_tor \in BOOLEAN
    /\ telegram \in TelegramSettings
    /\ histFile \in {Absent, Doc("other", << >>)}
    /\ socks_port = DefaultSocksPort
    /\ InitLocals

\* Continuous monitoring of one node, over any history file.
InitContinuous ==
    /\ continuous = TRUE
    /\ nodesFile = NodesDoc(<< [url |-> U1, type |-> "clearnet"] >>)
    /\ server \in { [u \in Urls |-> p] : p \in {"rpc", "offline"} }
    /\ use_tor = TRUE
    /\ telegram = [enabled |-> TRUE, creds |-> TRUE]
    /\ histFile \in InitialHistories
    /\ socks_port = DefaultSocksPort
    /\ InitLocals

\* Continuous monitoring without a usable node list.
InitNoNodes ==
    /\ continuous = TRUE
    /\ nodesFile \in {NodesMissing, NodesDoc(<< >>)}
    /\ server = [u \in Urls |-> "rpc"]
    /\ use_tor = TRUE
    /\ telegram = [enabled |-> TRUE, creds |-> TRUE]
    /\ histFile \in {Absent, HistoryDoc(OldScans(1))}
    /\ socks_port = DefaultSocksPort
    /\ InitLocals

\* A single scan of a darknet and a clearnet node under any configured SOCKS port.
InitTorPort ==
    /\ continuous = FALSE
    /\ nodesFile = NodesDoc(<< [url |-> U2, type |-> "darknet"],
                               [url |-> U1, type |-> "clearnet"] >>)
    /\ server \in { [u \in Urls |-> p] : p \in {"rpc", "offline"} }
    /\ use_tor \in BOOLEAN
    /\ telegram = [enabled |-> FALSE, creds |-> FALSE]
    /\ histFile = Absent
    /\ socks_port \in SocksPorts
    /\ InitLocals

\* main runs; format_scan_results is called by run_scan's notification only.
Init ==
    /\ InitSingle \/ InitContinuous \/ InitNoNodes \/ InitTorPort
    /\ scan_result = NoRecord /\ formatted = << >> /\ median_height = 0

\* ---------------------------------------------------------------- actions
scanLog == << probeLog, io, atStart >>
counters == << finished, sleeps, warnings >>

RetFalse == [kind |-> "false"]
RetRecord(rec) == [kind |-> "record", rec |-> rec]

\* Mutant of AfterScan: the continuous loop calls run_scan again without sleeping.
AfterScan_NoSleep == IF continuous THEN "idle" ELSE "done"

\* Where main goes when run_scan returns: the sleep of the loop, or the end.
AfterScan == IF continuous THEN "sleep" ELSE "done"

\* Mutant of NoNodes: run_scan goes on with whatever load_nodes gave.
NoNodes_Never(loaded) == FALSE

\* `if not nodes`
NoNodes(loaded) == loaded = << >>

\* main calls run_scan, which loads the node list and stamps the scan.
StartScan ==
    /\ pc = "idle"
    /\ scans < MaxScans
    /\ scans' = scans + 1
    /\ probeLog' = << >>
    /\ io' = NoIo
    /\ atStart' = << histFile, latestFile >>
    /\ LET loaded == LoadNodes(nodesFile) IN
        IF NoNodes(loaded)
        THEN /\ returned' = << RetFalse >>
             /\ finished' = finished + 1
             /\ pc' = AfterScan
             /\ UNCHANGED << scanLocals, clock >>
        ELSE /\ nodes' = loaded
             /\ timestamp' = clock
             /\ clock' = clock + 1
             /\ results' = << >>
             /\ online_count' = 0
             /\ idx' = 1
             /\ pc' = IF Len(loaded) > 0 THEN "loop" ELSE "persist"
             /\ UNCHANGED << returned, finished >>
    /\ UNCHANGED << config, files, histFile, latestFile, probeLocals, exc, sent,
                    stoppedAt, sleeps, warnings >>

\* run_scan reads node['url'] for its log line and calls check_node, which reads
\* node["url"] and node["type"] and picks the client. A missing key raises
\* KeyError, which nothing catches before main.
BeginProbe ==
    /\ pc = "loop"
    /\ LET node == nodes[idx] IN
        IF "url" \notin DOMAIN node
        THEN /\ exc' = << [type |-> "KeyError", in |-> "run_scan"] >>
             /\ pc' = "error"
             /\ UNCHANGED << probeLocals, probeLog >>
        ELSE IF "type" \notin DOMAIN node
        THEN /\ exc' = << [type |-> "KeyError", in |-> "check_node"] >>
             /\ pc' = "error"
             /\ probeLog' = Append(probeLog, idx)
             /\ UNCHANGED probeLocals
        ELSE /\ session' = SessionFor(node.type, use_tor)
             /\ k' = 1
             /\ ret' = << >>
             /\ requested' = << >>
             /\ attempts' = << >>
             /\ pc' = "post"
             /\ probeLog' = Append(probeLog, idx)
             /\ UNCHANGED exc
    /\ UNCHANGED << config, files, histFile, latestFile, clock, scans, returned,
                    scanLocals, sent, io, atStart, stoppedAt, counters >>

Sent(j, via) == [verb |-> Strategy(j).verb, path |-> Strategy(j).path,
                 method |-> Strategy(j).method, via |-> via, proxy |-> Proxy(via)]

\* Where the height-method loop goes after strategy j yielded no height.
NextAfterPost(j) == IF j < Len(HeightMethods) THEN "post" ELSE "get"

\* One iteration of `for method in height_methods`.
PostRequest ==
    /\ pc = "post"
    /\ \E response \in PostOutcomes(server[nodes[idx].url]) :
        LET node == nodes[idx]
            out == HeightStep(node.url, node.type, response)
        IN  /\ requested' = Append(requested, Sent(k, session))
            /\ attempts' = Append(attempts, response)
            /\ IF out # << >>
               THEN ret' = out /\ pc' = "probed" /\ k' = k
               ELSE ret' = << >> /\ pc' = NextAfterPost(k) /\ k' = k + 1
    /\ UNCHANGED << config, files, histFile, latestFile, clock, scans, returned, exc,
                    scanLocals, session, sent, scanLog, stoppedAt, counters >>

\* One iteration of `for method in basic_methods`; after the last one, the
\* final `return` of check_node.
GetRequest ==
    /\ pc = "get"
    /\ \E response \in GetOutcomesOf(server[nodes[idx].url]) :
        LET node == nodes[idx]
            out == BasicStep(node.url, node.type, response)
        IN  /\ requested' = Append(requested, Sent(k, session))
            /\ attempts' = Append(attempts, response)
            /\ IF out # << >>
               THEN ret' = out /\ pc' = "probed" /\ k' = k
               ELSE IF k < NumStrategies
               THEN ret' = << >> /\ pc' = "get" /\ k' = k + 1
               ELSE ret' = << Offline(node.url, node.type) >> /\ pc' = "probed" /\ k' = k
    /\ UNCHANGED << config, files, histFile, latestFile, clock, scans, returned, exc,
                    scanLocals, session, sent, scanLog, stoppedAt, counters >>

\* Mutant of Collect: the result put in front of the earlier ones.
Collect_Prepend(collected, result) == << result >> \o collected

\* `results.append(result)`
Collect(collected, result) == Append(collected, result)

\* Mutant of AfterRecord: the scan persisted as soon as one node is probed.
AfterRecord_Early(i, n) == "persist"

\* Where run_scan goes after the i-th of n nodes: the next node, or out of the loop.
AfterRecord(i, n) == IF i < n THEN "loop" ELSE "persist"

\* run_scan takes check_node's result: counts it, appends it, goes on.
RecordResult ==
    /\ pc = "probed"
    /\ online_count' = IF ret[1].status = "online" THEN online_count + 1 ELSE online_count
    /\ results' = Collect(results, ret[1])
    /\ idx' = idx + 1
    /\ pc' = AfterRecord(idx, Len(nodes))
    /\ k' = 0 /\ session' = "none" /\ ret' = << >> /\ requested' = << >> /\ attempts' = << >>
    /\ UNCHANGED << config, files, histFile, latestFile, clock, scans, returned, exc,
                    nodes, timestamp, sent, scanLog, stoppedAt, counters >>

\* `scan_result = {"timestamp": ..., "nodes": results}`
ScanResult == [timestamp |-> timestamp, nodes |-> results]
\* Mutant of LatestDoc: the record saved without its results.
LatestDoc_NoResults(rec) == Doc("scan", << [timestamp |-> rec.timestamp, nodes |-> << >>] >>)

\* What save_json(scan_result, latest_file) writes.
LatestDoc(rec) == Doc("scan", << rec >>)
WriteOutcomes == {"ok", "fail", "partial"}
Cost(failed) == IF failed THEN 1 ELSE 0
ReadOutcome(file, readOk) ==
    IF file.st = "absent" THEN "none" ELSE IF readOk THEN "ok" ELSE "fail"

\* run_scan builds the ScanRecord, appends it to the loaded history, trims the
\* history and saves both files. A document without "scans" raises KeyError.
Persist ==
    /\ pc = "persist"
    /\ \E readOk \in BOOLEAN, wh \in WriteOutcomes, wl \in WriteOutcomes :
        LET loaded == LoadJson(histFile, readOk)
            current == OrEmptyHistory(loaded)
        IN  /\ (histFile.st = "absent" => readOk)
            /\ IF current.kind # "history"
               THEN /\ wh = "ok" /\ wl = "ok"
                    /\ faults + Cost(~readOk) <= MaxIoFaults
                    /\ faults' = faults + Cost(~readOk)
                    /\ io' = [read |-> ReadOutcome(histFile, readOk), hist |-> "none",
                              latest |-> "none"]
                    /\ exc' = << [type |-> "KeyError", in |-> "persist"] >>
                    /\ pc' = "error"
                    /\ UNCHANGED << histFile, latestFile, savedHistory, appended >>
               ELSE LET new == HistoryDoc(TrimHistory(Append(current.scans, ScanResult)))
                        cost == Cost(~readOk) + Cost(wh # "ok") + Cost(wl # "ok")
                    IN  /\ faults + cost <= MaxIoFaults
                        /\ faults' = faults + cost
                        /\ io' = [read |-> ReadOutcome(histFile, readOk), hist |-> wh,
                                  latest |-> wl]
                        /\ histFile' = SaveJson(new, histFile, wh)
                        /\ latestFile' = SaveJson(LatestDoc(ScanResult), latestFile, wl)
                        /\ savedHistory' = << new >>
                        /\ appended' = Append(appended, ScanResult)
                        /\ pc' = "notify"
                        /\ UNCHANGED exc
    /\ UNCHANGED << config, clock, scans, returned, scanLocals, probeLocals, sent,
                    probeLog, atStart, stoppedAt, counters >>

\* Mutant of ShouldSend: the credentials are not looked at.
ShouldSend_IgnoreCreds(tg) == tg.enabled

\* run_scan calls send_scan_results when Telegram is enabled and both
\* environment variables are set.
ShouldSend(tg) == tg.enabled /\ tg.creds

\* run_scan logs the counts, then notifies or warns, and returns the ScanRecord.
\* send_scan_results formats the message (which may raise) and hands it to
\* send_telegram_message, which posts it only when both credentials are set.
Notify ==
    /\ pc = "notify"
    /\ IF ShouldSend(telegram) /\ FormatRaises(results)
       THEN /\ exc' = << [type |-> "TypeError", in |-> "format_scan_results"] >>
            /\ pc' = "error"
            /\ UNCHANGED << returned, sent, counters >>
       ELSE /\ sent' = IF ShouldSend(telegram) /\ telegram.creds THEN sent + 1 ELSE sent
            /\ warnings' = IF telegram.enabled /\ ~ShouldSend(telegram)
                           THEN warnings + 1 ELSE warnings
            /\ returned' = << RetRecord(ScanResult) >>
            /\ finished' = finished + 1
            /\ pc' = AfterScan
            /\ UNCHANGED << exc, sleeps >>
    /\ UNCHANGED << config, files, histFile, latestFile, clock, scans, scanLocals,
                    probeLocals, scanLog, stoppedAt >>

\* time.sleep(scan_interval_minutes * 60) ends and the loop calls run_scan again.
Wake ==
    /\ pc = "sleep"
    /\ pc' = "idle"
    /\ sleeps' = sleeps + 1
    /\ UNCHANGED << config, files, histFile, latestFile, clock, scans, returned, exc,
                    scanLocals, probeLocals, sent, scanLog, stoppedAt, finished,
                    warnings >>

\* Where main can be when KeyboardInterrupt arrives: anywhere inside its try block.
Interruptible == {"idle", "loop", "post", "get", "probed", "persist", "notify", "sleep"}
\* Where in the persistence it can arrive: before any write, while the history
\* file is written, between the two writes, while the latest-scan file is written.
PersistPoints == {"load", "history", "between", "latest"}

\* KeyboardInterrupt is no Exception: neither check_node's nor save_json's
\* handlers catch it, and it unwinds to main, which logs and ends. A file that
\* was being written is left truncated.
Interrupt ==
    /\ pc \in Interruptible
    /\ pc' = "stopped"
    /\ stoppedAt' = pc
    /\ k' = 0 /\ session' = "none" /\ ret' = << >> /\ requested' = << >> /\ attempts' = << >>
    /\ IF pc = "persist"
       THEN \E point \in PersistPoints :
            LET current == OrEmptyHistory(LoadJson(histFile, TRUE))
                new == HistoryDoc(TrimHistory(Append(current.scans, ScanResult)))
                wh == IF point = "history" THEN "partial" ELSE "ok"
                wl == IF point = "latest" THEN "partial" ELSE "fail"
            IN  IF point = "load"
                THEN UNCHANGED << histFile, latestFile, files, io >>
                ELSE /\ current.kind = "history"
                     /\ histFile' = SaveJson(new, histFile, wh)
                     /\ latestFile' = IF point = "history" THEN latestFile
                                      ELSE SaveJson(LatestDoc(ScanResult), latestFile, wl)
                     /\ savedHistory' = << new >>
                     /\ appended' = Append(appended, ScanResult)
                     /\ faults' = faults + Cost(point # "between")
                     /\ io' = [read |-> ReadOutcome(histFile, TRUE), hist |-> wh,
                               latest |-> IF point = "latest" THEN wl ELSE "none"]
       ELSE UNCHANGED << histFile, latestFile, files, io >>
    /\ IF pc = "notify" /\ ShouldSend(telegram) /\ telegram.creds /\ ~FormatRaises(results)
       THEN sent' \in {sent, sent + 1}
       ELSE UNCHANGED sent
    /\ UNCHANGED << config, clock, scans, returned, exc, scanLocals, probeLog, atStart,
                    counters >>

Next == StartScan \/ BeginProbe \/ PostRequest \/ GetRequest \/ RecordResult
        \/ Persist \/ Notify \/ Wake \/ Interrupt

Spec == Init /\ [][Next]_vars

\* ------------------------------- format_scan_results called on its own
\* ProbeResults as check_node builds them: heights 100, 90 (just within the sync
\* window of 100) and 80 (outside), a height that is a string, a node that
\* answered without a height, an offline node.
SampleResults ==
    { OnlineWithHeight(U1, "clearnet", JInt(h), JObj([height |-> JInt(h)])) : h \in {100, 90, 80} }
    \cup { OnlineWithHeight(U2, "darknet", JStr("500"), JObj([height |-> JStr("500")])),
           OnlineWithNote(U2, "darknet", HttpOk),
           Offline(U1, "clearnet") }
ScanRecords ==
    { [timestamp |-> 1, nodes |-> l] : l \in SeqsUpTo(SampleResults, MaxFormatNodes) }

InitFormat ==
    /\ continuous = FALSE
    /\ nodesFile = NodesMissing
    /\ server = [u \in Urls |-> "offline"]
    /\ use_tor = FALSE
    /\ telegram = [enabled |-> FALSE, creds |-> FALSE]
    /\ histFile = Absent
    /\ socks_port = DefaultSocksPort
    /\ InitLocals
    /\ scan_result \in ScanRecords
    /\ formatted = << >> /\ median_height = 0

\* A caller hands scan_result to format_scan_results.
Format ==
    /\ formatted = << >>
    /\ formatted' = << FormatScanResults(scan_result) >>
    /\ median_height' = IF FormatRaises(scan_result.nodes) THEN median_height
                         ELSE MedianHeight(HeightsOf(scan_result.nodes))
    /\ UNCHANGED << nodesFile, server, continuous, use_tor, telegram, initHist, socks_port,
                    scan_result, histFile, latestFile, clock, pc, scans, returned, exc,
                    scanLocals, probeLocals, files, sent, scanLog, stoppedAt, counters >>

SpecFormat == InitFormat /\ [][Format]_vars


\* ------------------------------------------- the continuous loop, kept running
\* Continuous monitoring over a history file that is absent, not a history
\* document, or an empty history; with or without a usable node list.
InitLive ==
    /\ InitContinuous \/ InitNoNodes
    /\ histFile \in {Absent, Doc("other", << >>), HistoryDoc(<< >>)}
    /\ scan_result = NoRecord /\ formatted = << >> /\ median_height = 0

\* What the process does by itself: every step of main but the arrival of a
\* KeyboardInterrupt. Requests end (timeout=15) and time.sleep returns, so a
\* step that stays possible is taken.
Run == StartScan \/ BeginProbe \/ PostRequest \/ GetRequest \/ RecordResult
       \/ Persist \/ Notify \/ Wake

SpecLive == InitLive /\ [][Next]_vars /\ WF_vars(Run)

\* ----------------------------------------------------------------- claims
StartedEmpty == initHist \in {Absent, HistoryDoc(<< >>), Doc("empty", << >>)}

\* C1: whatever the history file held when the process started, every 'scans'
\* sequence run_scan hands to save_json for the history file has at most 10
\* elements.
C1_WrittenHistoryAtMostTen ==
    savedHistory # << >> => Len(savedHistory[1].scans) <= HistoryLimit

\* A history file that already held more than 10 scans has been appended to
\* twice, and what was written holds 10.
C1_Witness ==
    /\ initHist.st = "json"
    /\ Len(initHist.scans) > HistoryLimit
    /\ Len(appended) >= 2
    /\ savedHistory # << >>
    /\ Len(savedHistory[1].scans) = HistoryLimit
    /\ histFile = savedHistory[1]

\* C2: starting from an empty (or absent) history and with every file
\* operation succeeding, after n scans the history file holds exactly the last
\* min(n, 10) ScanRecords, in the order they were appended.
C2_FifoEviction ==
    (StartedEmpty /\ faults = 0 /\ appended # << >>)
        => histFile = HistoryDoc(LastN(appended, HistoryLimit))

\* After the 11th append the file holds records 2..11, oldest dropped.
C2_Witness ==
    /\ StartedEmpty /\ faults = 0
    /\ Len(appended) = HistoryLimit + 1
    /\ histFile = HistoryDoc(SubSeq(appended, 2, HistoryLimit + 1))
    /\ histFile.scans[1].timestamp < histFile.scans[HistoryLimit].timestamp

\* What the claims call a strategy's outcome, stated on the response alone.
Answered(response) == response.kind = "http"
NetworkError(response) == response.kind \in {"refused", "timeout"}
HeightAt(obj) == obj.t = "obj" /\ "height" \in DOMAIN obj.v /\ obj.v.height.t # "null"
\* HTTP 200, a JSON object with a 'result' object holding a height, in
\* 'height' or, when there is no 'height', in 'block_header'.
YieldsHeight(response) ==
    /\ Answered(response)
    /\ response.code = 200
    /\ response.body.t = "obj"
    /\ "result" \in DOMAIN response.body.v
    /\ LET result == response.body.v.result IN
         /\ result.t = "obj"
         /\ \/ HeightAt(result)
            \/ /\ "height" \notin DOMAIN result.v
               /\ "block_header" \in DOMAIN result.v
               /\ HeightAt(result.v.block_header)
HeightOf(response) ==
    LET result == response.body.v.result IN
    IF "height" \in DOMAIN result.v THEN result.v.height
    ELSE result.v.block_header.v.height
\* The failures C5 lists: network error, non-200, unparseable body, no
\* 'result', a 'result' with neither height field.
ListedFailure(response) ==
    \/ NetworkError(response)
    \/ response.code # 200
    \/ response.body.t = "invalid"
    \/ response.body.t = "obj" /\ "result" \notin DOMAIN response.body.v
    \/ /\ response.body.t = "obj" /\ "result" \in DOMAIN response.body.v
       /\ response.body.v.result.t = "obj"
       /\ "height" \notin DOMAIN response.body.v.result.v
       /\ ~ ( "block_header" \in DOMAIN response.body.v.result.v
              /\ HeightAt(response.body.v.result.v.block_header) )
LivenessFails(response) == NetworkError(response) \/ response.code >= 500
InProbe == pc \in {"post", "get", "probed"}
Returned == pc = "probed"
FixedOrder ==
    << <<"POST", "/get_info", "get_info">>, <<"POST", "/json_rpc", "get_info">>,
       <<"POST", "/json_rpc", "get_last_block_header">>, <<"GET", "", "">>,
       <<"GET", "/get_info", "">> >>

\* C3: check_node never raises past its boundary: every call ends in a
\* returned ProbeResult, none in an exception raised inside check_node.
C3_CheckNodeNeverRaises ==
    exc = << >> \/ exc[1].in # "check_node"

\* C4: the requests of a probe are a prefix of the fixed order POST /get_info
\* (get_info), POST /json_rpc (get_info), POST /json_rpc
\* (get_last_block_header), GET base, GET /get_info; a height-seeking strategy
\* that yields a height is the last request, and check_node has returned
\* status online with that height.
C4_FixedOrderFirstHeightWins ==
    InProbe =>
        /\ Len(requested) <= Len(FixedOrder)
        /\ Len(attempts) = Len(requested)
        /\ \A j \in 1..Len(requested) :
              << requested[j].verb, requested[j].path, requested[j].method >> = FixedOrder[j]
        /\ \A j \in 1..Len(attempts) :
              (j <= 3 /\ YieldsHeight(attempts[j])) =>
                  /\ j = Len(attempts)
                  /\ Returned
                  /\ ret[1].status = "online"
                  /\ ret[1].height = HeightOf(attempts[j])

\* The second strategy yielded the height after the first failed: two requests
\* were sent and the probe has returned.
C4_Witness ==
    /\ Returned
    /\ Len(requested) = 2
    /\ ~YieldsHeight(attempts[1])
    /\ attempts[2] = Http(200, RpcHeader)
    /\ ret[1].status = "online"
    /\ ret[1].height = JInt(490)

\* C5: a height-seeking strategy that ends in one of the listed failures is
\* followed by the next strategy in order, and the ProbeResult returned in the
\* end is the one the last request alone decides.
C5_FailedStrategyAdvances ==
    InProbe =>
        /\ \A j \in 1..Len(attempts) :
              (j <= 3 /\ ListedFailure(attempts[j])) =>
                  \/ Len(requested) > j /\ requested[j + 1].path = FixedOrder[j + 1][2]
                  \/ Len(requested) = j /\ pc \in {"post", "get"} /\ k = j + 1 /\ ret = << >>
        /\ Returned =>
              LET node == nodes[idx]
                  last == attempts[Len(attempts)]
              IN  \/ ret = HeightStep(node.url, node.type, last) /\ Len(attempts) <= 3
                  \/ ret = BasicStep(node.url, node.type, last) /\ Len(attempts) > 3
                  \/ ret = << Offline(node.url, node.type) >> /\ Len(attempts) = 5

\* Three failures of three kinds, each followed by the next request.
C5_Witness ==
    /\ InProbe
    /\ Len(requested) = 4
    /\ attempts[1] = Refused
    /\ attempts[2] = Http(404, NotJson)
    /\ attempts[3] = Http(200, RpcEmptyResult)

\* C6: a GET is sent only after all three height-seeking strategies produced
\* no height; a GET answered with a status code below 500 is the last request,
\* and check_node has returned status online, height 0 and a note recording
\* that status code.
C6_LivenessFallback ==
    InProbe =>
        /\ (\E j \in 1..Len(requested) : requested[j].verb = "GET") =>
              /\ Len(attempts) > 3
              /\ \A j \in 1..3 : requested[j].verb = "POST" /\ ~YieldsHeight(attempts[j])
        /\ \A j \in 4..Len(attempts) :
              (Answered(attempts[j]) /\ attempts[j].code < 500) =>
                  /\ j = Len(attempts)
                  /\ Returned
                  /\ ret[1] = [ url |-> nodes[idx].url, type |-> nodes[idx].type,
                                status |-> "online", height |-> JInt(0),
                                note |-> <<"Responded with status", attempts[j].code>> ]

\* {"result": {}} to all three RPC requests, then 404 to the plain GET.
C6_Witness ==
    /\ Returned
    /\ Len(attempts) = 4
    /\ \A j \in 1..3 : attempts[j] = Http(200, RpcEmptyResult)
    /\ attempts[4] = Http(404, NotJson)
    /\ ret[1].status = "online"
    /\ ret[1].note = <<"Responded with status", 404>>

\* C7: check_node returns status offline exactly when all five strategies were
\* requested and each failed (no height from the three POSTs; a network error
\* or a status >= 500 for the two GETs), and then with height 0 and the text
\* 'Failed all connection methods'.
C7_OfflineIffAllFailed ==
    Returned =>
        /\ ret[1].status = "offline" <=>
              /\ Len(requested) = 5
              /\ \A j \in 1..3 : ~YieldsHeight(attempts[j])
              /\ \A j \in 4..5 : LivenessFails(attempts[j])
        /\ ret[1].status = "offline" =>
              ret[1] = [ url |-> nodes[idx].url, type |-> nodes[idx].type,
                         status |-> "offline", height |-> JInt(0),
                         error |-> "Failed all connection methods" ]

\* Five requests, five failures of different kinds, offline.
C7_Witness ==
    /\ Returned
    /\ ret[1].status = "offline"
    /\ attempts[1] = TimedOut
    /\ attempts[3] = Http(200, RpcHeightNull)
    /\ attempts[4] = Refused
    /\ attempts[5] = Http(500, NotJson)

\* Every ProbeResult there is: the one check_node just returned and those
\* run_scan has collected.
ProbeResults == { ret[j] : j \in 1..Len(ret) } \cup { results[j] : j \in 1..Len(results) }
NoVersionNoDifficulty(r) == "version" \notin DOMAIN r /\ "difficulty" \notin DOMAIN r

\* C8 as stated: a ProbeResult is offline if and only if its height is 0 and
\* it records no version and no difficulty.
C8_OfflineIffNoData ==
    \A r \in ProbeResults :
        r.status = "offline" <=> (r.height = JInt(0) /\ NoVersionNoDifficulty(r))

\* C8 as amended: an offline ProbeResult has height 0 and records no version
\* and no difficulty (the converse fails: the liveness-only result is online).
C8_OfflineHasNoData ==
    \A r \in ProbeResults :
        r.status = "offline" => (r.height = JInt(0) /\ NoVersionNoDifficulty(r))

C8_Witness ==
    /\ Returned
    /\ ret[1].status = "offline"
    /\ \E j \in 1..Len(results) : results[j].status = "online" /\ "version" \in DOMAIN results[j]

\* C9: when at least one request of a probe received an HTTP response, of any
\* status code, check_node returns status online.
C9_AnyAnswerMeansOnline ==
    (Returned /\ \E j \in 1..Len(attempts) : Answered(attempts[j]))
        => ret[1].status = "online"

\* C10: a failure while probing one node leaves no later node of the list
\* unprobed: when the probe of node idx has failed, no well-formed node
\* stands after it in the list.
C10_ProbeFailureSkipsNoNode ==
    (pc = "error" /\ exc[1].in \in {"run_scan", "check_node"})
        => \A j \in (idx + 1)..Len(nodes) : nodes[j] \notin GoodNodes

\* run_scan has returned a ScanRecord to main.
Completed == pc \in {"done", "sleep"} /\ returned # << >> /\ returned[1].kind = "record"

\* C11: a completed run_scan has called check_node for each configured node
\* exactly once, in the configured order, and the ScanRecord it returns holds
\* as many results as there are nodes, the i-th being that of the i-th node.
C11_EachNodeOnceInOrder ==
    Completed =>
        /\ probeLog = [j \in 1..Len(nodes) |-> j]
        /\ Len(returned[1].rec.nodes) = Len(nodes)
        /\ \A j \in 1..Len(nodes) :
            /\ returned[1].rec.nodes[j].url = nodes[j].url
            /\ returned[1].rec.nodes[j].type = nodes[j].type
C11_Witness ==
    /\ Completed
    /\ Len(nodes) = 2 /\ nodes[1].url # nodes[2].url
    /\ probeLog = << 1, 2 >>
    /\ returned[1].rec.nodes[2].url = nodes[2].url

NodeListUnusable == LoadNodes(nodesFile) = << >>

\* C12: when config/nodes.json is missing, is not valid JSON, has no "nodes"
\* key or lists no node, every run_scan returns False instead of a ScanRecord,
\* calls check_node for no node, sends no request, leaves the history file
\* and the latest-scan file as they were and sends no notification.
C12_NoNodesNoScan ==
    (NodeListUnusable /\ scans > 0) =>
        /\ returned = << RetFalse >>
        /\ exc = << >>
        /\ probeLog = << >> /\ requested = << >> /\ results = << >>
        /\ << histFile, latestFile >> = atStart
        /\ histFile = initHist /\ latestFile = Absent
        /\ savedHistory = << >> /\ appended = << >>
        /\ sent = 0
C12_Witness ==
    /\ NodeListUnusable
    /\ scans >= 2
    /\ returned = << RetFalse >>
    /\ telegram.enabled /\ telegram.creds /\ sent = 0
    /\ histFile = HistoryDoc(OldScans(1))

\* A load or save of this scan's persistence failed.
IoFailed ==
    \/ io.read = "fail"
    \/ io.hist \in {"fail", "partial"}
    \/ io.latest \in {"fail", "partial"}
SavesSucceeded == io.hist = "ok" /\ io.latest = "ok"

\* C13: when a load or a save of the history file or of the latest-scan file
\* fails, no exception leaves the persistence step, the scan goes on with all
\* its probe results, and what run_scan returns is the in-memory ScanRecord
\* holding one result per node.
C13_FileFailureDoesNotAbort ==
    (IoFailed /\ stoppedAt = "") =>
        /\ ~(pc = "error" /\ exc[1].in = "persist")
        /\ pc \in {"notify", "done", "sleep"} => Len(results) = Len(nodes)
        /\ pc \in {"done", "sleep"} => returned = << RetRecord(ScanResult) >>
C13_Witness ==
    /\ pc = "done"
    /\ io.hist = "partial" /\ histFile = Corrupt
    /\ Len(nodes) = 2
    /\ returned = << RetRecord(ScanResult) >>
    /\ Len(returned[1].rec.nodes) = 2

LastScan(file) == file.scans[Len(file.scans)]
LatestIsReturned ==
    /\ latestFile.st = "json" /\ latestFile.kind = "scan"
    /\ latestFile.scans = << returned[1].rec >>
    /\ histFile.st = "json" /\ histFile.kind = "history"
    /\ histFile.scans # << >>
    /\ LastScan(histFile) = returned[1].rec

\* C14 as stated: after every completed run_scan the latest-scan file holds
\* exactly the returned ScanRecord, which is also the last element of the
\* persisted history's 'scans'.
C14_LatestIsReturnedRecord == Completed => LatestIsReturned

\* C14, amended: after every completed run_scan whose two saves succeeded, the
\* latest-scan file holds exactly the returned ScanRecord, which is also the
\* last element of the persisted history's 'scans'.
C14_LatestIsReturnedWhenSaved == (Completed /\ SavesSucceeded) => LatestIsReturned
C14_Witness ==
    /\ Completed /\ SavesSucceeded
    /\ Len(histFile.scans) >= 2
    /\ LatestIsReturned
    /\ returned[1].rec.nodes # << >>

\* run_scan is in its loop over the nodes: no result set is assembled yet.
MidScan == {"loop", "post", "get", "probed"}
InScanLoop == pc \in MidScan \/ (pc = "stopped" /\ stoppedAt \in MidScan)
\* The ScanRecords of a data file that this process wrote.
OwnScans(file) ==
    IF file.st = "json"
    THEN { file.scans[j] : j \in { i \in 1..Len(file.scans) : file.scans[i].timestamp >= 1 } }
    ELSE { }

\* C15: no write happens before the results of all nodes are assembled: while
\* run_scan is in its loop over the nodes, and after an interrupt that arrived
\* there, the history file and the latest-scan file are as the scan found them
\* and the interrupted scan never returns; no ScanRecord in either file holds
\* fewer results than there are configured nodes.
C15_NoWriteBeforeAllProbed ==
    /\ InScanLoop =>
        /\ << histFile, latestFile >> = atStart
        /\ \A j \in 1..Len(appended) : appended[j].timestamp # timestamp
    /\ (pc = "stopped" /\ stoppedAt \in MidScan) => finished < scans
    /\ \A rec \in OwnScans(histFile) \cup OwnScans(latestFile) :
        Len(rec.nodes) = Len(LoadNodes(nodesFile))
C15_Witness ==
    /\ pc = "stopped" /\ stoppedAt = "post"
    /\ Len(nodes) = 2 /\ Len(results) = 1
    /\ << histFile, latestFile >> = atStart
    /\ OwnScans(histFile) = { }

\* C16: in continuous mode at most one run_scan is in progress (every call but
\* the latest has returned), and the n+1-th call starts only after the n-th
\* has returned and the sleep that follows it has elapsed.
C16_CyclesNeverOverlap ==
    continuous =>
        /\ scans <= finished + 1
        /\ scans <= sleeps + 1
        /\ sleeps <= finished
        /\ pc \in MidScan \cup {"persist", "notify"} => scans = finished + 1
        /\ pc = "sleep" => (scans = finished /\ sleeps = finished - 1)
C16_Witness ==
    /\ continuous
    /\ pc = "post"
    /\ scans = 3 /\ finished = 2 /\ sleeps = 2

\* Telegram is enabled and a credential is missing from the environment.
NoCredentials == telegram.enabled /\ ~telegram.creds
\* This scan got past its persistence.
ReachedNotify == appended # << >> /\ appended[Len(appended)].timestamp = timestamp

\* C17: with notifications enabled but a credential missing, run_scan sends
\* nothing to Telegram, logs one warning per scan that reaches the notification
\* step, raises nothing there and returns the ScanRecord; with notifications
\* disabled it sends nothing and logs no warning.
C17_NoCredentialsNoNotification ==
    /\ NoCredentials =>
        /\ sent = 0
        /\ ~(pc = "error" /\ exc[1].in = "format_scan_results")
        /\ pc \in {"done", "sleep"} /\ ReachedNotify =>
            /\ returned = << RetRecord(ScanResult) >>
            /\ warnings = finished
    /\ ~telegram.enabled =>
        /\ sent = 0 /\ warnings = 0
        /\ pc \in {"done", "sleep"} /\ ReachedNotify =>
            returned = << RetRecord(ScanResult) >>
C17_Witness ==
    /\ NoCredentials
    /\ pc = "done"
    /\ FormatRaises(results)
    /\ returned = << RetRecord(ScanResult) >>
    /\ warnings = 1 /\ sent = 0

\* check_node is at work on a darknet node while main's use_tor is off.
DarknetDirect == InProbe /\ nodes[idx].type = "darknet" /\ ~use_tor

\* C18: a darknet node probed with Tor routing disabled is probed like any
\* other: check_node takes the direct client, sends the five strategies in
\* their fixed order through it without a proxy, and returns a ProbeResult for
\* the node, offline only after all five.
C18_DarknetProbedDirectly ==
    DarknetDirect =>
        /\ session = "direct"
        /\ \A j \in 1..Len(requested) :
            /\ requested[j].via = "direct" /\ requested[j].proxy = NoProxy
            /\ << requested[j].verb, requested[j].path, requested[j].method >> = FixedOrder[j]
        /\ Returned =>
            /\ ret # << >>
            /\ ret[1].url = nodes[idx].url /\ ret[1].type = "darknet"
            /\ ret[1].status \in {"online", "offline"}
            /\ ret[1].status = "offline" => Len(requested) = Len(FixedOrder)
C18_Witness ==
    /\ DarknetDirect /\ Returned
    /\ Len(requested) = 5
    /\ \A j \in 1..5 : requested[j].via = "direct"
    /\ ret[1].status = "online"

\* C19: every request for a darknet node probed with Tor routing enabled goes
\* through the SOCKS proxy at 127.0.0.1 on the port settings["tor"]["socks_port"]
\* names, and every request for a clearnet node goes out without a proxy.
C19_ProxiedThroughConfiguredPort ==
    InProbe =>
        \A j \in 1..Len(requested) :
            /\ (nodes[idx].type = "darknet" /\ use_tor) =>
                requested[j].proxy = [host |-> "127.0.0.1", port |-> socks_port]
            /\ nodes[idx].type = "clearnet" => requested[j].proxy = NoProxy

\* format_scan_results has been called on scan_result.
Formatted == formatted # << >>

\* C20: given a ScanRecord with an empty result sequence, format_scan_results
\* returns a message, its online ratio and health score being 0, instead of
\* raising a division error.
C20_EmptyRecordFormats ==
    (Formatted /\ scan_result.nodes = << >>) =>
        /\ formatted[1].kind = "message"
        /\ formatted[1].online_percent = 0
        /\ formatted[1].health_score = 0

\* The quantities claim C21 names, counted from the record itself.
C21_Online == { j \in 1..Len(scan_result.nodes) : scan_result.nodes[j].status = "online" }
C21_WithHeight == { j \in C21_Online : scan_result.nodes[j].height.v > 0 }
C21_Max == CHOOSE h \in { scan_result.nodes[j].height.v : j \in C21_WithHeight } :
               \A j \in C21_WithHeight : scan_result.nodes[j].height.v <= h
C21_Synced ==
    Cardinality({ j \in C21_WithHeight : scan_result.nodes[j].height.v >= C21_Max - 10 })
\* Heights 100, 100, 90, an offline node, 80.
C21_Example ==
    /\ Len(scan_result.nodes) = 5
    /\ \A j \in {1, 2, 3, 5} : scan_result.nodes[j].status = "online"
    /\ scan_result.nodes[4].status = "offline"
    /\ << scan_result.nodes[1].height.v, scan_result.nodes[2].height.v,
          scan_result.nodes[3].height.v, scan_result.nodes[5].height.v >>
           = << 100, 100, 90, 80 >>

\* C21: the health score of the message is 100 x (0.5 x online/total + 0.5 x
\* synced/with-height) to the nearest tenth, synced counting the online results
\* with a height above 0 that is within 10 of the greatest such height; it is
\* 0 when no online result has a height above 0; it lies between 0 and 100;
\* heights 100, 100, 90, offline, 80 give maximum 100, median 95, 3 synced
\* nodes and a score of 77.5. (Score and median are held in tenths.)
C21_HealthScore ==
    (Formatted /\ formatted[1].kind = "message") =>
        LET total == Len(scan_result.nodes)
            online == Cardinality(C21_Online)
            with == Cardinality(C21_WithHeight)
            score == formatted[1].health_score
            exact == 1000 * (online * with + C21_Synced * total)
            err == 2 * total * with * score - exact
        IN  /\ score >= 0 /\ score <= 1000
            /\ with = 0 => score = 0
            /\ with > 0 =>
                /\ formatted[1].synced = C21_Synced
                /\ formatted[1].block_height = C21_Max
                /\ err <= total * with /\ -err <= total * with
            /\ C21_Example =>
                /\ formatted[1].block_height = 100
                /\ median_height = 950
                /\ formatted[1].synced = 3
                /\ score = 775
C21_Witness ==
    /\ Formatted /\ formatted[1].kind = "message"
    /\ C21_Example
    /\ formatted[1].health_score = 775 /\ median_height = 950

\* An address as claim C22 shows it: the first 20 and the last 7 characters
\* around an ellipsis when it is longer than 30 characters.
C22_Elided(address) ==
    IF Len(address) > 30
    THEN SubSeq(address, 1, 20) \o "..." \o SubSeq(address, Len(address) - 6, Len(address))
    ELSE address

\* C22: the message of format_scan_results lists the online nodes with the
\* greatest heights, five at most, in descending order of height, each with
\* its address elided when longer than 30 characters.
C22_TopFiveListed ==
    (Formatted /\ formatted[1].kind = "message") =>
        /\ "top_nodes" \in DOMAIN formatted[1]
        /\ LET top == formatted[1].top_nodes
               ns == scan_result.nodes
               online == { j \in 1..Len(ns) : ns[j].status = "online" }
               shown == IF Cardinality(online) < 5 THEN Cardinality(online) ELSE 5
           IN  /\ Len(top) = shown
               /\ \A i \in 1..(Len(top) - 1) : top[i].height >= top[i + 1].height
               /\ \E f \in [1..Len(top) -> online] :
                    /\ \A a, b \in 1..Len(top) : a # b => f[a] # f[b]
                    /\ \A i \in 1..Len(top) :
                        /\ top[i].address = C22_Elided(ns[f[i]].url)
                        /\ top[i].height = ns[f[i]].height.v
                    /\ \A j \in online :
                        (\A i \in 1..Len(top) : f[i] # j) =>
                            \A i \in 1..Len(top) : ns[j].height.v <= top[i].height

\* Every one of the five requests of the current probe ended in `response`.
AllEndedIn(response) ==
    /\ Len(attempts) = NumStrategies
    /\ \A j \in 1..Len(attempts) : attempts[j] = response
\* What check_node returns for a node whose every request ends in `response`.
ResultWhenAll(url, node_type, response) ==
    IF HeightStep(url, node_type, response) # << >>
    THEN HeightStep(url, node_type, response)[1]
    ELSE IF BasicStep(url, node_type, response) # << >>
    THEN BasicStep(url, node_type, response)[1]
    ELSE Offline(url, node_type)

\* C23: a timeout and a refused connection each send check_node on to the next
\* strategy, and the final status tells them apart: the status returned when
\* all five requests timed out differs from the status returned when all five
\* were refused.
C23_TimeoutDistinctFromRefusal ==
    /\ \A j \in 1..Len(attempts) :
        (NetworkError(attempts[j]) /\ j < NumStrategies) => (Len(attempts) > j \/ pc # "probed")
    /\ (Returned /\ AllEndedIn(TimedOut)) =>
        ret[1].status # ResultWhenAll(nodes[idx].url, nodes[idx].type, Refused).status

\* C24: every ProbeResult check_node returns, and every one stored in a
\* ScanRecord, has a height that is an integer of at least 0, whatever the
\* node put in its 'height' field.
C24_HeightIsNaturalNumber ==
    /\ \A r \in ProbeResults : r.height.t = "int" /\ r.height.v >= 0
    /\ \A i \in 1..Len(appended) : \A j \in 1..Len(appended[i].nodes) :
        appended[i].nodes[j].height.t = "int" /\ appended[i].nodes[j].height.v >= 0

RequestOf(j) == << requested[j].verb, requested[j].path, requested[j].method >>

\* C25: a call of check_node sends at most five requests, three POSTs then two
\* GETs, each strategy once and none again, every request having ended before
\* the next is sent, and the call returns at the latest when the fifth has
\* ended.
C25_AtMostFiveRequests ==
    InProbe =>
        /\ Len(requested) <= 5
        /\ Len(attempts) = Len(requested)
        /\ \A j \in 1..Len(requested) :
            /\ RequestOf(j) = FixedOrder[j]
            /\ requested[j].verb = IF j <= 3 THEN "POST" ELSE "GET"
        /\ \A i, j \in 1..Len(requested) : i # j => RequestOf(i) # RequestOf(j)
        /\ Len(requested) = 5 => Returned
        /\ ~Returned => k = Len(requested) + 1
C25_Witness ==
    /\ Returned
    /\ Len(requested) = 5
    /\ AllEndedIn(TimedOut)
    /\ ret[1].status = "offline"

\* A scan cycle of the continuous loop has ended: run_scan returned, or an
\* exception came out of it.
CycleOver == pc \in {"sleep", "error"}

\* C26: in continuous mode, whenever the n-th scan cycle has ended, by a
\* return or by an error, an n+1-th cycle starts later on, unless a
\* KeyboardInterrupt stops the process.
C26_NextCycleStarts ==
    \A n \in 1..(MaxScans - 1) :
        (continuous /\ scans = n /\ CycleOver) ~> (scans > n \/ stoppedAt # "")
====
